---- MODULE Spec2Model ----
(***************************************************************************)
(* Model of rollerupper.py: GenericComparator, RollerUpper and             *)
(* ImmutableRollerUpper.                                                   *)
(*                                                                         *)
(* Python objects live in a heap (a sequence of node records, a node's     *)
(* identity is its index), so that two references to the same RollerUpper  *)
(* are the same node.  Python values (None, int, bool, str, plain objects) *)
(* are tagged records [t, v] whose v is always a sequence of integers; a   *)
(* str is the sequence of its code points.  An optional list argument or   *)
(* attribute (data, children) is [none, list].                             *)
(***************************************************************************)
EXTENDS Integers, Sequences, FiniteSets, Bags, TLC

VARIABLES heap, refs, tree, last, calls

vars == <<heap, refs, tree, last, calls>>

(* ---------------------------- bounds ----------------------------------- *)
MaxLen == 3
MaxNodes == 5
MaxKids == 2

(* ------------------------- Python values -------------------------------- *)
PyNone == [t |-> "none", v |-> <<>>]
PyInt(i) == [t |-> "int", v |-> <<i>>]
PyBool(b) == [t |-> "bool", v |-> <<IF b THEN 1 ELSE 0>>]
PyString(s) == [t |-> "str", v |-> s]
PyObj(i) == [t |-> "obj", v |-> <<i>>]

S_Unknown == <<85, 110, 107, 110, 111, 119, 110>>
S_None == <<78, 111, 110, 101>>
S_True == <<84, 114, 117, 101>>
S_False == <<70, 97, 108, 115, 101>>
S_V == <<86>>

RECURSIVE Digits(_)
Digits(i) == IF i < 10 THEN <<48 + i>> ELSE Digits(i \div 10) \o <<48 + (i % 10)>>

\* str(x)
str(x) ==
  CASE x.t = "str" -> x.v
    [] x.t = "int" -> Digits(x.v[1])
    [] x.t = "none" -> S_None
    [] x.t = "bool" -> (IF x.v[1] = 1 THEN S_True ELSE S_False)
    [] OTHER -> <<60>> \o Digits(x.v[1]) \o <<62>>

IsNum(x) == x.t \in {"int", "bool"}

\* a == b on Python values (int and bool compare by number, objects by identity)
PyEq(a, b) ==
  IF IsNum(a) /\ IsNum(b) THEN a.v = b.v ELSE a.t = b.t /\ a.v = b.v

\* a < b on two sequences: first difference decides, a proper prefix is smaller
RECURSIVE SeqLt(_, _)
SeqLt(a, b) ==
  IF b = <<>> THEN FALSE
  ELSE IF a = <<>> THEN TRUE
  ELSE IF a[1] # b[1] THEN a[1] < b[1]
  ELSE SeqLt(Tail(a), Tail(b))

\* a < b on two values of the same type (two str, or two numbers)
PyLt(a, b) == SeqLt(a.v, b.v)

\* the attribute `label` of the plain objects used as grouping values
getattr_label(k) ==
  CASE k.v[1] = 1 -> PyString(S_V)
    [] k.v[1] = 2 -> PyString(S_Unknown)
    [] OTHER -> PyNone

(* ------------------------- optional lists ------------------------------- *)
NoList == [none |-> TRUE, list |-> <<>>]
SomeList(s) == [none |-> FALSE, list |-> s]
Truthy(o) == ~o.none /\ Len(o.list) > 0

(* --------------------------- items -------------------------------------- *)
Items ==
  { [f |-> PyInt(2), g |-> PyObj(1)],
    [f |-> PyInt(10), g |-> PyObj(2)],
    [f |-> PyNone, g |-> PyObj(3)],
    [f |-> PyInt(2), g |-> PyNone] }

FieldNames == {"f", "g"}
NameFields == {"", "label"}

RECURSIVE SeqsUpTo(_, _)
SeqsUpTo(S, n) ==
  IF n = 0 THEN {<<>>}
  ELSE LET P == SeqsUpTo(S, n - 1)
       IN P \cup {Append(s, x) : s \in {q \in P : Len(q) = n - 1}, x \in S}

(* ----------------------- GenericComparator ------------------------------ *)
RU_COMPARATOR == <<"name">>

\* GenericComparator._key: the list of the compared fields' values
_key(fieldnames, o) == [i \in 1..Len(fieldnames) |-> o[fieldnames[i]]]

\* list < list: the first pair of unequal elements decides, a proper prefix is smaller
RECURSIVE ListLt(_, _)
ListLt(a, b) ==
  IF b = <<>> THEN FALSE
  ELSE IF a = <<>> THEN TRUE
  ELSE IF ~PyEq(a[1], b[1]) THEN PyLt(a[1], b[1])
  ELSE ListLt(Tail(a), Tail(b))

\* GenericComparator.lt
lt(fieldnames, o1, o2) == ListLt(_key(fieldnames, o1), _key(fieldnames, o2))

\* RollerUpper.__lt__ on two nodes of heap h
__lt__(h, a, b) == lt(RU_COMPARATOR, h[a], h[b])

\* list.sort(): ascending by __lt__, stable
RECURSIVE InsertSorted(_, _, _)
InsertSorted(h, s, x) ==
  IF s = <<>> THEN <<x>>
  ELSE IF __lt__(h, x, s[1]) THEN <<x>> \o s
  ELSE <<s[1]>> \o InsertSorted(h, Tail(s), x)

RECURSIVE SortFrom(_, _, _)
SortFrom(h, done, rest) ==
  IF rest = <<>> THEN done
  ELSE SortFrom(h, InsertSorted(h, done, rest[1]), Tail(rest))

\* mutant: the children are left in the order they were appended
sort_skipped(h, ids) == ids

sort(h, ids) == SortFrom(h, <<>>, ids)

(* ------------------------- RollerUpper ---------------------------------- *)
RU == "RollerUpper"
IRU == "ImmutableRollerUpper"

\* asrt(condition, message): TRUE when the assertion passes, FALSE when it raises
asrt(cond) == cond

\* mutant: only the first child's items are taken
ConcatData_first(h, cs) == IF cs = <<>> THEN <<>> ELSE h[cs[1]].data

RECURSIVE ConcatData(_, _)
ConcatData(h, cs) ==
  IF cs = <<>> THEN <<>> ELSE h[cs[1]].data \o ConcatData(h, Tail(cs))

\* RollerUpper.__init__: does the constructor raise?
__init__raises(data, children) ==
  \/ ~asrt(~(data.none /\ children.none))
  \/ ~asrt(~(Truthy(data) /\ Truthy(children)))

\* RollerUpper.__init__: the object built when the constructor does not raise
__init__(h, cls, name, key, data, children) ==
  LET d1 == IF ~data.none THEN data.list ELSE <<>>
      c1 == NoList
  IN [cls |-> cls, name |-> name, key |-> key,
      data |-> IF ~children.none THEN ConcatData(h, children.list) ELSE d1,
      children |-> IF ~children.none THEN children ELSE c1]

\* mutant: reset derives the items from the children it drops
RU_reset_derived(h, n) ==
  [h EXCEPT ![n].children = NoList, ![n].data = ConcatData(h, h[n].children.list)]

\* RollerUpper.reset
RU_reset(h, n) == [h EXCEPT ![n].children = NoList]

\* mutant: an item is put in front of its bucket
GroupAdd_front(group, val, d) ==
  IF \E i \in 1..Len(group) : PyEq(group[i].k, val)
  THEN [i \in 1..Len(group) |->
          IF PyEq(group[i].k, val) THEN [group[i] EXCEPT !.v = <<d>> \o @] ELSE group[i]]
  ELSE Append(group, [k |-> val, v |-> <<d>>])

\* the dict `group` of _group_by, in insertion order: a sequence of [k, v]
GroupAdd(group, val, d) ==
  IF \E i \in 1..Len(group) : PyEq(group[i].k, val)
  THEN [i \in 1..Len(group) |->
          IF PyEq(group[i].k, val) THEN [group[i] EXCEPT !.v = Append(@, d)] ELSE group[i]]
  ELSE Append(group, [k |-> val, v |-> <<d>>])

RECURSIVE GroupOf(_, _, _)
GroupOf(group, data, field_name) ==
  IF data = <<>> THEN group
  ELSE GroupOf(GroupAdd(group, data[1][field_name], data[1]), Tail(data), field_name)

\* one child per bucket whose key is not None, in the dict's order
RECURSIVE KeyedChildren(_, _, _)
KeyedChildren(h, group, name_field) ==
  IF group = <<>> THEN <<>>
  ELSE LET k == group[1].k
           key == IF name_field # "" THEN getattr_label(k) ELSE k
           name == PyString(str(key))
       IN (IF PyEq(k, PyNone) THEN <<>>
           ELSE <<__init__(h, RU, name, key, SomeList(group[1].v), NoList)>>)
          \o KeyedChildren(h, Tail(group), name_field)

\* mutant: the items of the None bucket are dropped
UnknownData_dropped(group) == <<>>

RECURSIVE UnknownData(_)
UnknownData(group) ==
  IF group = <<>> THEN <<>>
  ELSE (IF PyEq(group[1].k, PyNone) THEN group[1].v ELSE <<>>) \o UnknownData(Tail(group))

\* the children appended by _group_by, before the sort
NewChildren(h, data, field_name, name_field) ==
  LET group == GroupOf(<<>>, data, field_name)
      unknown_data == UnknownData(group)
  IN KeyedChildren(h, group, name_field)
     \o (IF unknown_data # <<>>
         THEN <<__init__(h, RU, PyString(S_Unknown), PyNone, SomeList(unknown_data), NoList)>>
         ELSE <<>>)

\* RollerUpper._group_by: the heap after grouping node n
_group_by(h, n, field_name, name_field) ==
  LET kids == NewChildren(h, h[n].data, field_name, name_field)
      ids == [i \in 1..Len(kids) |-> Len(h) + i]
      h1 == h \o kids
  IN [h1 EXCEPT ![n].children = SomeList(sort(h1, ids))]

\* ImmutableRollerUpper.mutable: does it raise, and the copy it builds
mutable_raises(h, n) == __init__raises(SomeList(h[n].data), h[n].children)
mutable(h, n) == __init__(h, RU, h[n].name, PyNone, SomeList(h[n].data), h[n].children)

\* group_hierarchy_by with the dispatch on the receiver's class; the result
\* is [heap, raised, ret], ret the returned object (0 for None)
RECURSIVE group_hierarchy_by(_, _, _, _)
RECURSIVE GroupEach(_, _, _, _)
GroupEach(h, cs, field_name, name_field) ==
  IF cs = <<>> THEN [heap |-> h, raised |-> FALSE, ret |-> 0]
  ELSE LET r == group_hierarchy_by(h, cs[1], field_name, name_field)
       IN IF r.raised THEN r
          ELSE GroupEach(r.heap, Tail(cs), field_name, name_field)

\* mutant: an internal node is grouped again itself instead of its children
RU_group_hierarchy_by_self(h, n, field_name, name_field) ==
  [heap |-> _group_by(h, n, field_name, name_field), raised |-> FALSE, ret |-> 0]

\* RollerUpper.group_hierarchy_by
RU_group_hierarchy_by(h, n, field_name, name_field) ==
  IF h[n].children.none
  THEN [heap |-> _group_by(h, n, field_name, name_field), raised |-> FALSE, ret |-> 0]
  ELSE [GroupEach(h, h[n].children.list, field_name, name_field) EXCEPT !.ret = 0]

\* ImmutableRollerUpper.group_hierarchy_by
IRU_group_hierarchy_by(h, n, field_name, name_field) ==
  IF mutable_raises(h, n) THEN [heap |-> h, raised |-> TRUE, ret |-> 0]
  ELSE LET h1 == Append(h, mutable(h, n))
           result == Len(h1)
           r == RU_group_hierarchy_by(h1, result, field_name, name_field)
       IN [r EXCEPT !.ret = IF r.raised THEN 0 ELSE result]

group_hierarchy_by(h, n, field_name, name_field) ==
  IF h[n].cls = IRU
  THEN IRU_group_hierarchy_by(h, n, field_name, name_field)
  ELSE RU_group_hierarchy_by(h, n, field_name, name_field)

\* reset with the dispatch on the receiver's class
reset(h, n) == IF h[n].cls = IRU THEN h ELSE RU_reset(h, n)

\* RollerUpper.get_all_children: the leaves below n, depth first
RECURSIVE get_all_children(_, _)
RECURSIVE LeavesOf(_, _)
LeavesOf(h, cs) ==
  IF cs = <<>> THEN <<>>
  ELSE (IF ~h[cs[1]].children.none THEN get_all_children(h, cs[1]) ELSE <<cs[1]>>)
       \o LeavesOf(h, Tail(cs))
get_all_children(h, n) == LeavesOf(h, h[n].children.list)

\* RollerUpper.get_children: the list `result` (the children of the returned node)
RECURSIVE get_children_list(_, _, _, _, _, _)
RECURSIVE FindLoop(_, _, _, _, _, _, _)
FindLoop(h, cs, result, name, key, recursive, _first_only) ==
  IF cs = <<>> THEN result
  ELSE LET c == cs[1]
           hit == IF ~PyEq(name, PyNone) THEN str(h[c].name) = str(name)
                  ELSE IF ~PyEq(key, PyNone) THEN PyEq(h[c].key, key)
                  ELSE FALSE
           r1 == IF hit THEN Append(result, c) ELSE result
           r2 == IF recursive /\ ~h[c].children.none
                 THEN r1 \o get_children_list(h, c, name, key, recursive, FALSE)
                 ELSE r1
       IN IF _first_only /\ r2 # <<>> THEN r2
          ELSE FindLoop(h, Tail(cs), r2, name, key, recursive, _first_only)

\* mutant: the search does not descend below the children
get_children_list_flat(h, n, name, key, recursive, _first_only) ==
  FindLoop(h, h[n].children.list, <<>>, name, key, FALSE, _first_only)

get_children_list(h, n, name, key, recursive, _first_only) ==
  FindLoop(h, h[n].children.list, <<>>, name, key, recursive, _first_only)

\* get_children raises: the assertion, or iterating children == None
get_children_raises(h, n, name, key) ==
  \/ ~asrt(~(PyEq(name, PyNone) /\ PyEq(key, PyNone)))
  \/ h[n].children.none

\* the node get_children returns
get_children(h, n, name, key, recursive, _first_only) ==
  __init__(h, RU, name, key, NoList,
           SomeList(get_children_list(h, n, name, key, recursive, _first_only)))

\* RollerUpper.get_child: get_children(name, recursive, _first_only=True) binds
\* `recursive` to the parameter key; the result is children[0] or None (0)
get_child_raises(h, n, name, recursive) ==
  get_children_raises(h, n, name, PyBool(recursive))
get_child(h, n, name, recursive) ==
  LET result == get_children(h, n, name, PyBool(recursive), TRUE, TRUE)
  IN IF Truthy(result.children) THEN result.children.list[1] ELSE 0

(* --------------------------- the caller --------------------------------- *)
NameArgs == {PyNone, PyInt(2), PyString(S_Unknown)}
KeyArgs == {PyNone, PyInt(2), PyString(S_Unknown)}

\* the record of the last call: its receiver and arguments, whether it raised,
\* the returned object (ret: a heap node, 0 for None; node: a node that is not
\* kept on the heap), and whether the receiver was a leaf before the call
NoCall ==
  [op |-> "", self |-> 0, field_name |-> "", name_field |-> "",
   name |-> PyNone, key |-> PyNone, recursive |-> FALSE,
   cls |-> "", data |-> NoList, children |-> NoList,
   raised |-> FALSE, ret |-> 0, node |-> <<>>, leaf0 |-> FALSE]

Nodes == 1..Len(heap)

\* the attribute name_field exists on every grouping value it is applied to
ExprOk(h, n, field_name, name_field) ==
  name_field # "" =>
    \A i \in 1..Len(h[n].data) : h[n].data[i][field_name].t \in {"none", "obj"}

(* Objects no reference leads to are freed.  The heap keeps the nodes the   *)
(* caller's references (refs) reach, numbered in depth-first order from     *)
(* them, so that a node's number does not depend on allocation history.     *)
Range(s) == {s[i] : i \in 1..Len(s)}

RECURSIVE Visit(_, _, _)
Visit(h, todo, acc) ==
  IF todo = <<>> THEN acc
  ELSE IF todo[1] \in Range(acc) THEN Visit(h, Tail(todo), acc)
  ELSE Visit(h, h[todo[1]].children.list \o Tail(todo), Append(acc, todo[1]))

Live(h, rs) == Visit(h, rs, <<>>)
NewId(order, n) == IF n \in Range(order) THEN CHOOSE i \in 1..Len(order) : order[i] = n ELSE 0
MapIds(order, s) == [i \in 1..Len(s) |-> NewId(order, s[i])]
Collect(h, order) ==
  [i \in 1..Len(order) |-> [h[order[i]] EXCEPT !.children.list = MapIds(order, @)]]

\* the references the caller holds: the objects it built (refs) and the tree
\* the last ImmutableRollerUpper.group_hierarchy_by call returned (tree)
Held(rs, res) == IF res = 0 THEN rs ELSE Append(rs, res)
Receivers == Range(Held(refs, tree))

\* the program starts with one RollerUpper built from a list of items
Init ==
  \E d \in SeqsUpTo(Items, MaxLen) :
    /\ heap = <<__init__(<<>>, RU, PyNone, PyNone, SomeList(d), NoList)>>
    /\ refs = <<1>>
    /\ tree = 0
    /\ last = NoCall
    /\ calls = 0

GroupHierarchyBy(n, field_name, name_field) ==
  /\ ExprOk(heap, n, field_name, name_field)
  /\ \E r \in {group_hierarchy_by(heap, n, field_name, name_field)} :
     \E res \in {IF r.ret = 0 THEN tree ELSE r.ret} :
     \E order \in {Live(r.heap, Held(refs, res))} :
        /\ Len(order) <= MaxNodes
        /\ heap' = Collect(r.heap, order)
        /\ refs' = MapIds(order, refs)
        /\ tree' = NewId(order, res)
        /\ last' = [NoCall EXCEPT !.op = "group_hierarchy_by", !.self = NewId(order, n),
                                  !.field_name = field_name, !.name_field = name_field,
                                  !.raised = r.raised, !.ret = NewId(order, r.ret),
                                  !.leaf0 = heap[n].children.none]
        /\ calls' = IF n = 1 /\ calls >= 0 /\ ~r.raised /\ heap[1].data # <<>>
                    THEN calls + 1 ELSE -1

Reset(n) ==
  /\ \E h1 \in {reset(heap, n)} :
     \E order \in {Live(h1, Held(refs, tree))} :
        /\ heap' = Collect(h1, order)
        /\ refs' = MapIds(order, refs)
        /\ tree' = NewId(order, tree)
        /\ last' = [NoCall EXCEPT !.op = "reset", !.self = NewId(order, n),
                                  !.leaf0 = heap[n].children.none]
  /\ calls' = -1

GetChildren(n, name, key, recursive) ==
  /\ last' = [NoCall EXCEPT !.op = "get_children", !.self = n,
                            !.name = name, !.key = key, !.recursive = recursive,
                            !.leaf0 = heap[n].children.none,
                            !.raised = get_children_raises(heap, n, name, key),
                            !.node = IF get_children_raises(heap, n, name, key) THEN <<>>
                                     ELSE <<get_children(heap, n, name, key, recursive, FALSE)>>]
  /\ UNCHANGED <<heap, refs, tree, calls>>

GetChild(n, name, recursive) ==
  /\ last' = [NoCall EXCEPT !.op = "get_child", !.self = n,
                            !.name = name, !.recursive = recursive,
                            !.leaf0 = heap[n].children.none,
                            !.raised = get_child_raises(heap, n, name, recursive),
                            !.ret = IF get_child_raises(heap, n, name, recursive) THEN 0
                                    ELSE get_child(heap, n, name, recursive)]
  /\ UNCHANGED <<heap, refs, tree, calls>>

\* the arguments the caller gives a constructor
NewNames == {PyString(S_V)}
NewData ==
  {NoList, SomeList(<<>>),
   SomeList(<<[f |-> PyInt(2), g |-> PyObj(1)], [f |-> PyInt(10), g |-> PyObj(2)]>>)}
NewChildren_args == {NoList} \cup {SomeList(cs) : cs \in SeqsUpTo(Range(refs), MaxKids)}

\* RollerUpper(name, data=, children=) or ImmutableRollerUpper(name, data=, children=)
\* the caller first builds up to MaxKids plain leaves and then one object, and
\* keeps of the leaves only what the object built over them refers to
OnlyLeaves(h) == \A n \in 1..Len(h) : h[n].cls = RU /\ h[n].children.none

New(cls, name, data, children) ==
  /\ last.op \in {"", "__init__"}
  /\ OnlyLeaves(heap)
  /\ Len(refs) <= MaxKids
  /\ \E raised \in {__init__raises(data, children)} :
     \E h1 \in {IF raised THEN heap
                ELSE Append(heap, __init__(heap, cls, name, PyNone, data, children))} :
     \E rs \in {IF raised THEN refs
                ELSE IF children.none THEN Append(refs, Len(h1)) ELSE <<Len(h1)>>} :
     \E order \in {Live(h1, rs)} :
        /\ heap' = Collect(h1, order)
        /\ refs' = MapIds(order, rs)
        /\ last' = [NoCall EXCEPT !.op = "__init__", !.cls = cls, !.name = name,
                                  !.data = data,
                                  !.children = [children EXCEPT !.list = MapIds(order, @)],
                                  !.raised = raised,
                                  !.ret = IF raised THEN 0 ELSE NewId(order, Len(h1))]
  /\ UNCHANGED <<tree, calls>>

Next ==
  \/ \E n \in Receivers, fn \in FieldNames, nf \in NameFields : GroupHierarchyBy(n, fn, nf)
  \/ \E n \in Nodes : Reset(n)

\* a RollerUpper built from items, grouped through the reference to it, and
\* any of its nodes reset
Spec == Init /\ [][Next]_vars

NextFind ==
  \/ \E n \in Receivers, fn \in FieldNames, nf \in NameFields : GroupHierarchyBy(n, fn, nf)
  \/ \E n \in Range(refs), name \in NameArgs, key \in KeyArgs, rec \in BOOLEAN :
       GetChildren(n, name, key, rec)
  \/ \E n \in Range(refs), name \in NameArgs, rec \in BOOLEAN : GetChild(n, name, rec)

\* a RollerUpper built from items, grouped and searched
SpecFind == Init /\ [][NextFind]_vars

InitNew ==
  /\ heap = <<>>
  /\ refs = <<>>
  /\ tree = 0
  /\ last = NoCall
  /\ calls = -1

NextNew ==
  \/ \E cls \in {RU, IRU}, name \in NewNames, data \in NewData, cs \in NewChildren_args :
       New(cls, name, data, cs)
  \/ \E n \in Receivers, fn \in FieldNames, nf \in NameFields : GroupHierarchyBy(n, fn, nf)
  \/ \E n \in Nodes : Reset(n)

\* objects of both classes built by the constructors, grouped and reset
SpecNew == InitNew /\ [][NextNew]_vars

(* ------------------------ properties ------------------------------------ *)
Exprs == FieldNames \X NameFields

SeqBag(s) == [x \in Range(s) |-> Cardinality({i \in 1..Len(s) : s[i] = x})]

\* the items of the nodes cs, one node after the other
RECURSIVE Flatten(_, _)
Flatten(h, cs) == IF cs = <<>> THEN <<>> ELSE h[cs[1]].data \o Flatten(h, Tail(cs))

Subtree(h, n) == Range(Live(h, <<n>>))
IsLeaf(h, n) == h[n].children.none
Kids(h, n) == h[n].children.list
GroupedHeap(h, n, e) == group_hierarchy_by(h, n, e[1], e[2]).heap

\* the items of data whose grouping value equals v, in the order of data
Bucket(data, field_name, v) ==
  LET Same(d) == PyEq(d[field_name], v) IN SelectSeq(data, Same)

\* C1: grouping a leaf partitions its items: every child holds exactly the
\* items of one grouping value in their original relative order, children have
\* different grouping values, the children's items together are the leaf's
\* items as a multiset, and a leaf without items gets no children.
C1_Partition ==
  \A n \in Nodes : \A e \in Exprs :
    (IsLeaf(heap, n) /\ ExprOk(heap, n, e[1], e[2])) =>
      LET h2 == GroupedHeap(heap, n, e)
          data == heap[n].data
          kids == Kids(h2, n)
      IN /\ ~IsLeaf(h2, n)
         /\ SeqBag(Flatten(h2, kids)) = SeqBag(data)
         /\ (data = <<>> => kids = <<>>)
         /\ \A i \in 1..Len(kids) :
              /\ h2[kids[i]].data # <<>>
              /\ h2[kids[i]].data = Bucket(data, e[1], h2[kids[i]].data[1][e[1]])
         /\ \A i, j \in 1..Len(kids) :
              i # j => ~PyEq(h2[kids[i]].data[1][e[1]], h2[kids[j]].data[1][e[1]])

\* a leaf of three items was grouped into two children, the items of one
\* child not adjacent in the leaf
C1_Witness ==
  /\ last.op = "group_hierarchy_by" /\ last.leaf0 /\ ~last.raised
  /\ Len(heap[last.self].data) = 3
  /\ Len(Kids(heap, last.self)) = 2
  /\ Flatten(heap, Kids(heap, last.self)) # heap[last.self].data
  /\ \E c \in Range(Kids(heap, last.self)) :
       heap[c].data = <<heap[last.self].data[1], heap[last.self].data[3]>>

\* C2 as stated: the items of every internal node are, as a sequence, the
\* concatenation of its children's items in the children's order.
C2_ItemsAreConcatenation ==
  \A n \in Nodes : ~IsLeaf(heap, n) => heap[n].data = Flatten(heap, Kids(heap, n))

\* C2 amended: the items of every internal node are, as a multiset, the items
\* of its children together.
C2_ItemsArePermutation ==
  \A n \in Nodes :
    ~IsLeaf(heap, n) => SeqBag(heap[n].data) = SeqBag(Flatten(heap, Kids(heap, n)))

\* an object was built over two leaves and then grouped: it holds the items
\* of its children in their order, and the items of a child that the call
\* grouped are not in the order of that child's children
C2_Witness ==
  /\ last.op = "group_hierarchy_by" /\ ~last.raised /\ ~last.leaf0
  /\ Len(Kids(heap, last.self)) = 2
  /\ heap[last.self].data # <<>>
  /\ heap[last.self].data = Flatten(heap, Kids(heap, last.self))
  /\ \E n \in Range(Kids(heap, last.self)) :
       /\ ~IsLeaf(heap, n)
       /\ heap[n].data # Flatten(heap, Kids(heap, n))

Ascending(h, cs) ==
  \A i, j \in 1..Len(cs) : i < j => ~SeqLt(str(h[cs[j]].name), str(h[cs[i]].name))

\* C3: after a group_hierarchy_by call the children of every node the call
\* turned from a leaf into an internal node are in ascending order of name.
C3_ChildrenSorted ==
  \A n \in Nodes : \A e \in Exprs :
    ExprOk(heap, n, e[1], e[2]) =>
      LET h2 == GroupedHeap(heap, n, e)
      IN \A m \in Nodes :
           (IsLeaf(heap, m) /\ ~IsLeaf(h2, m)) =>
             /\ Ascending(h2, Kids(h2, m))
             /\ \A c \in Range(Kids(h2, m)) : h2[c].name.t = "str"

IsSynthetic(node) == node.name = PyString(S_Unknown) /\ node.key = PyNone

\* a leaf was grouped into three children, the "Unknown" child between the two
\* others, and the leaf's first item is not in its first child
C3_Witness ==
  /\ last.op = "group_hierarchy_by" /\ last.leaf0 /\ ~last.raised
  /\ Len(Kids(heap, last.self)) = 3
  /\ IsSynthetic(heap[Kids(heap, last.self)[2]])
  /\ heap[Kids(heap, last.self)[1]].data[1] # heap[last.self].data[1]

\* C4: grouping a leaf puts the items whose grouping value is None, and only
\* them, into one child named "Unknown" with key None; without such an item
\* there is no child named "Unknown" with key None.
C4_NullRouting ==
  \A n \in Nodes : \A e \in Exprs :
    (IsLeaf(heap, n) /\ ExprOk(heap, n, e[1], e[2])) =>
      LET h2 == GroupedHeap(heap, n, e)
          data == heap[n].data
          kids == Kids(h2, n)
          nulls == Bucket(data, e[1], PyNone)
          synth == {i \in 1..Len(kids) : IsSynthetic(h2[kids[i]])}
          IsNull(d) == PyEq(d[e[1]], PyNone)
      IN /\ Cardinality(synth) <= 1
         /\ (nulls = <<>>) = (synth = {})
         /\ \A i \in synth : h2[kids[i]].data = nulls
         /\ \A i \in 1..Len(kids) :
              i \notin synth => SelectSeq(h2[kids[i]].data, IsNull) = <<>>

\* a leaf was grouped into the "Unknown" child of its None-valued item, a
\* child named "Unknown" whose key is the string, and a child with key None
\* named "None"
C4_Witness ==
  /\ last.op = "group_hierarchy_by" /\ last.leaf0 /\ ~last.raised
  /\ \E a, b, c \in Range(Kids(heap, last.self)) :
       /\ IsSynthetic(heap[a])
       /\ heap[b].name = PyString(S_Unknown) /\ heap[b].key = PyString(S_Unknown)
       /\ heap[c].name = PyString(S_None) /\ heap[c].key = PyNone

\* C5: group_hierarchy_by followed by reset leaves the node a leaf with the
\* items, in the order, it had before; grouping it again groups these items
\* into new leaves; reset of a leaf changes nothing.
C5_LosslessReset ==
  \A n \in Nodes : \A e \in Exprs :
    ExprOk(heap, n, e[1], e[2]) =>
      LET h1 == GroupedHeap(heap, n, e)
          h2 == reset(h1, n)
      IN /\ h2[n].data = heap[n].data
         /\ IsLeaf(h2, n)
         /\ (IsLeaf(heap, n) => reset(heap, n) = heap)
         /\ \A e2 \in Exprs :
              ExprOk(h2, n, e2[1], e2[2]) =>
                LET h3 == GroupedHeap(h2, n, e2)
                IN /\ SeqBag(Flatten(h3, Kids(h3, n))) = SeqBag(heap[n].data)
                   /\ \A c \in Range(Kids(h3, n)) : c > Len(h2) /\ IsLeaf(h3, c)

\* a grouped node whose items are not in the order of its children was reset
C5_Witness ==
  /\ last.op = "reset" /\ ~last.leaf0
  /\ IsLeaf(heap, last.self)
  /\ Len(heap[last.self].data) >= 2
  /\ \E e \in Exprs :
       /\ ExprOk(heap, last.self, e[1], e[2])
       /\ LET h1 == GroupedHeap(heap, last.self, e)
          IN Flatten(h1, Kids(h1, last.self)) # heap[last.self].data

\* the depths, below node n at depth d, of the leaves of the tree of n
RECURSIVE LeafDepths(_, _, _)
LeafDepths(h, n, d) ==
  IF IsLeaf(h, n) THEN {d}
  ELSE UNION {LeafDepths(h, c, d + 1) : c \in Range(Kids(h, n))}

RECURSIVE LeafItems(_, _)
LeafItems(h, n) ==
  IF IsLeaf(h, n) THEN h[n].data
  ELSE LET F[i \in 0..Len(Kids(h, n))] ==
             IF i = 0 THEN <<>> ELSE F[i - 1] \o LeafItems(h, Kids(h, n)[i])
       IN F[Len(Kids(h, n))]

\* C10: group_hierarchy_by on an internal node gives every leaf of its tree
\* one level of new leaves and leaves every other node as it is; after k
\* calls on a root built from a non-empty list of items every leaf is at depth
\* k and the leaves hold the root's items as a multiset.
C10_Cascade ==
  /\ \A n \in Nodes : \A e \in Exprs :
       (~IsLeaf(heap, n) /\ ExprOk(heap, n, e[1], e[2])) =>
         LET h2 == GroupedHeap(heap, n, e)
         IN \A m \in Nodes :
              IF m \in Subtree(heap, n) /\ IsLeaf(heap, m)
              THEN /\ ~IsLeaf(h2, m)
                   /\ h2[m].data = heap[m].data
                   /\ \A c \in Range(Kids(h2, m)) : c > Len(heap) /\ IsLeaf(h2, c)
              ELSE h2[m] = heap[m]
  /\ (calls >= 0 /\ heap[1].data # <<>>) =>
       /\ LeafDepths(heap, 1, 0) = {calls}
       /\ SeqBag(LeafItems(heap, 1)) = SeqBag(heap[1].data)

\* the root was grouped twice, the second call grouping two leaves
C10_Witness ==
  /\ last.op = "group_hierarchy_by" /\ ~last.raised /\ ~last.leaf0
  /\ calls = 2
  /\ Len(Kids(heap, 1)) = 2
  /\ \A c \in Range(Kids(heap, 1)) : ~IsLeaf(heap, c) /\ Kids(heap, c) # <<>>

(* ---- get_children and get_child ---- *)
\* the nodes below n, depth first, a node before the nodes below it
RECURSIVE Below(_, _)
Below(h, n) ==
  IF IsLeaf(h, n) THEN <<>>
  ELSE LET F[i \in 0..Len(Kids(h, n))] ==
             IF i = 0 THEN <<>>
             ELSE F[i - 1] \o <<Kids(h, n)[i]>> \o Below(h, Kids(h, n)[i])
       IN F[Len(Kids(h, n))]

NameMatches(h, n, name, recursive) ==
  LET Hit(c) == str(h[c].name) = str(name)
  IN SelectSeq(IF recursive THEN Below(h, n) ELSE Kids(h, n), Hit)

KeyMatches(h, n, key, recursive) ==
  LET Hit(c) == PyEq(h[c].key, key)
  IN SelectSeq(IF recursive THEN Below(h, n) ELSE Kids(h, n), Hit)

Given(x) == x # PyNone

Returned(children) ==
  /\ ~last.raised
  /\ Len(last.node) = 1
  /\ last.node[1].children = SomeList(children)
  /\ last.node[1].cls = RU

\* C7 as stated: get_children with neither or both of name and key raises;
\* with exactly one of them it returns a new internal node whose children
\* are the matching nodes.
C7_ExactlyOneCriterion ==
  (last.op = "get_children" /\ ~last.leaf0) =>
    IF Given(last.name) = Given(last.key)
    THEN last.raised /\ last.node = <<>>
    ELSE IF Given(last.name)
         THEN Returned(NameMatches(heap, last.self, last.name, last.recursive))
         ELSE Returned(KeyMatches(heap, last.self, last.key, last.recursive))

\* C7 amended: get_children with neither name nor key raises; with a name
\* (with or without a key) it returns a new internal node whose children are
\* the nodes matching the name; with a key only, the nodes matching the key.
C7_NameOrKey ==
  (last.op = "get_children" /\ ~last.leaf0) =>
    IF ~Given(last.name) /\ ~Given(last.key)
    THEN last.raised /\ last.node = <<>>
    ELSE /\ last.node[1].name = last.name /\ last.node[1].key = last.key
         /\ IF Given(last.name)
            THEN Returned(NameMatches(heap, last.self, last.name, last.recursive))
            ELSE Returned(KeyMatches(heap, last.self, last.key, last.recursive))

\* get_children was called with a name and a key that match different nodes
C7_Witness ==
  /\ last.op = "get_children" /\ ~last.leaf0 /\ ~last.raised
  /\ Given(last.name) /\ Given(last.key) /\ last.recursive
  /\ NameMatches(heap, last.self, last.name, TRUE) # <<>>
  /\ KeyMatches(heap, last.self, last.key, TRUE) # <<>>
  /\ NameMatches(heap, last.self, last.name, TRUE)
       # KeyMatches(heap, last.self, last.key, TRUE)

\* C8: get_child(name, recursive) returns the first child of
\* get_children(name=name, recursive=recursive), or None when it has none.
C8_FirstOfFind ==
  (last.op = "get_child" /\ ~last.leaf0 /\ Given(last.name)) =>
    /\ ~last.raised
    /\ last.ret =
         (IF get_children_list(heap, last.self, last.name, PyNone, last.recursive, FALSE) = <<>>
          THEN 0
          ELSE get_children_list(heap, last.self, last.name, PyNone, last.recursive, FALSE)[1])

(* ---- the constructors ---- *)
\* C9: a constructor raises unless exactly one of data and children is given;
\* given data it builds a leaf holding them, given children an internal node
\* holding the children's items.
C9_ExactlyOneOfDataChildren ==
  last.op = "__init__" =>
    IF last.data.none = last.children.none
    THEN last.raised
    ELSE /\ ~last.raised
         /\ IF ~last.data.none
            THEN IsLeaf(heap, last.ret) /\ heap[last.ret].data = last.data.list
            ELSE /\ heap[last.ret].children = last.children
                 /\ heap[last.ret].data = Flatten(heap, last.children.list)

\* C6: group_hierarchy_by on an ImmutableRollerUpper returns a new
\* RollerUpper and changes no node reachable from the receiver; neither does
\* its reset, nor grouping or resetting the returned tree; the trees two
\* calls return have no node in common.
C6_Immutable ==
  \A n \in Nodes : \A e \in Exprs :
    (heap[n].cls = IRU /\ ExprOk(heap, n, e[1], e[2])) =>
      LET r == group_hierarchy_by(heap, n, e[1], e[2])
          Same(h) == \A m \in Subtree(heap, n) : h[m] = heap[m]
      IN /\ ~r.raised
         /\ r.ret > Len(heap) /\ r.heap[r.ret].cls = RU
         /\ Same(r.heap)
         /\ Same(reset(r.heap, n))
         /\ Same(reset(r.heap, r.ret))
         /\ \A e2 \in Exprs :
              ExprOk(r.heap, r.ret, e2[1], e2[2]) =>
                /\ Same(GroupedHeap(r.heap, r.ret, e2))
                /\ LET r2 == group_hierarchy_by(r.heap, n, e2[1], e2[2])
                   IN ~r2.raised /\ Subtree(r2.heap, r2.ret) \cap Subtree(r2.heap, r.ret) = {}

====
